---- MODULE Spec2Model ----
(***************************************************************************)
(* Model of "Config Manager/config_manager.py": class ConfigManager.        *)
(*                                                                         *)
(* One configuration file (config_path) on disk, a backup area, a clock,   *)
(* and ConfigManager instances ("stores") built on that path.  Python       *)
(* dictionaries are objects on a heap: config_data holds a reference, and  *)
(* data[key] = value stores into the object the reference names.           *)
(***************************************************************************)
EXTENDS Integers, Sequences, FiniteSets, TLC

\* ---------------------------------------------------------------- bounds
\* Longest key path handed to update_value.
MaxPath == 2
\* The clock of datetime.now() runs over the seconds 0..MaxTime.
MaxTime == 1
\* update_value calls made in one run.
MaxUpdates == 2

\* ---------------------------------------------------------------- values
\* A Python value: None, an int, a non-empty list, a set object, or a
\* reference to a dict object of the heap.
None == [t |-> "none", v |-> 0]

IntVal(n) == [t |-> "int", v |-> n]

ListVal == [t |-> "list", v |-> 0]

SetVal == [t |-> "set", v |-> 0]

Ref(i) == [t |-> "dict", v |-> i]

\* What a lookup finds where there is nothing (a KeyError, a non-dict).
Absent == [t |-> "absent", v |-> 0]

\* A document as text holds it: a scalar, or a mapping of keys to documents.
Map(m) == [t |-> "map", m |-> m]

Keys == {"a", "b"}

\* Key paths: the lists of keys of length 0..MaxPath.
Paths == UNION {[1..n -> Keys] : n \in 0..MaxPath}

Most(p) == SubSeq(p, 1, Len(p) - 1)

Last(p) == p[Len(p)]

\* ------------------------------------------------------------ text trees
RECURSIVE At(_, _)
\* The node of tree T at path p.
At(T, p) ==
    IF p = <<>> THEN T
    ELSE IF T.t = "map" /\ Head(p) \in DOMAIN T.m
         THEN At(T.m[Head(p)], Tail(p))
         ELSE Absent

MapPaths(T) == {p \in Paths : At(T, p).t = "map"}

RECURSIVE HasSet(_)
HasSet(T) ==
    IF T.t = "map" THEN \E k \in DOMAIN T.m : HasSet(T.m[k]) ELSE T.t = "set"

\* ------------------------------------------------------------------ heap
\* The heap maps the ids of the live dict objects to their contents, each a
\* function from the keys present to values.
RECURSIVE Walk(_, _, _)
\* The value reached from value v along path p by successive dict lookups.
Walk(h, v, p) ==
    IF p = <<>> THEN v
    ELSE IF v.t = "dict" /\ Head(p) \in DOMAIN h[v.v]
         THEN Walk(h, h[v.v][Head(p)], Tail(p))
         ELSE Absent

RECURSIVE Unfold(_, _)
\* The tree a value denotes (a shared dict appears once per path to it).
Unfold(h, v) ==
    IF v.t = "dict"
    THEN Map([k \in DOMAIN h[v.v] |-> Unfold(h, h[v.v][k])])
    ELSE v

\* The sets of paths (two or more) that reach one and the same dict object.
Share(h, v) ==
    LET at == {<<p, Walk(h, v, p)>> : p \in Paths}
        dicts == {x \in at : x[2].t = "dict"}
        cls(o) == {x[1] : x \in {y \in dicts : y[2] = o}}
    IN  {c \in {cls(x[2]) : x \in dicts} : Cardinality(c) > 1}

RECURSIVE ReachFrom(_, _)
ReachFrom(h, S) ==
    LET nxt == S \cup {h[x[1]][x[2]].v :
                   x \in {y \in S \X Keys : /\ y[2] \in DOMAIN h[y[1]]
                                            /\ h[y[1]][y[2]].t = "dict"}}
    IN  IF nxt = S THEN S ELSE ReachFrom(h, nxt)

\* Reference counting frees every dict no store's config_data reaches.
Collect(h, cd) ==
    LET roots == {cd[s].v : s \in {x \in DOMAIN cd : cd[x].t = "dict"}}
        live == ReachFrom(h, roots)
    IN  [i \in live |-> h[i]]

\* The k smallest ids not in use.
FirstFree(h, k) ==
    LET free == (1..(Cardinality(DOMAIN h) + k)) \ DOMAIN h
    IN  {i \in free : Cardinality({j \in free : j < i}) < k}

\* The smallest id not in use.
FreeId(h) ==
    CHOOSE i \in 1..(Cardinality(DOMAIN h) + 1) :
        i \notin DOMAIN h /\ \A j \in 1..(i - 1) : j \in DOMAIN h

\* bool(v): None, 0 and the empty dict are falsy.
Truthy(h, v) ==
    CASE v.t = "none" -> FALSE
      [] v.t = "int" -> v.v # 0
      [] v.t = "dict" -> DOMAIN h[v.v] # {}
      [] OTHER -> TRUE

\* ------------------------------------------------------------ file texts
\* What the path holds: no file, zero bytes, text no parser accepts (cut
\* short or malformed), or the text of a document in JSON or in block-style
\* YAML.  A YAML text carries its anchors: share is the set of groups of
\* paths that name one node.  JSON has none.
Missing == [k |-> "missing"]

Empty == [k |-> "empty"]

Bad == [k |-> "bad"]

Text(fmt, tree, share) ==
    [k |-> "text", fmt |-> fmt, tree |-> tree, share |-> share]

\* json.load / yaml.safe_load on a well-formed text: one dict object per
\* mapping node, one object for all the paths of an anchor group.
Parse(h, text) ==
    LET T == text.tree
        clsOf(p) == IF \E c \in text.share : p \in c
                    THEN CHOOSE c \in text.share : p \in c
                    ELSE {p}
        CL == {clsOf(p) : p \in MapPaths(T)}
        ids == FirstFree(h, Cardinality(CL))
        f == CHOOSE g \in [CL -> ids] :
                 \A c1, c2 \in CL : g[c1] = g[c2] => c1 = c2
        obj(c) == LET p == CHOOSE q \in c : TRUE
                      m == At(T, p).m
                  IN  [k \in DOMAIN m |->
                          IF m[k].t = "map"
                          THEN Ref(f[clsOf(Append(p, k))])
                          ELSE m[k]]
    IN  [data |-> IF T.t = "map" THEN Ref(f[clsOf(<<>>)]) ELSE T,
         heap |-> h @@ [i \in ids |-> obj(CHOOSE c \in CL : f[c] = i)]]

\* json.dump(config_data, file, indent=4): writes the tree chunk by chunk; a
\* set is not JSON serializable, and the TypeError leaves the text cut short.
JsonDump(h, data) ==
    LET T == Unfold(h, data)
    IN  IF HasSet(T) THEN [exc |-> "TypeError", file |-> Bad]
        ELSE [exc |-> "none", file |-> Text("json", T, {})]

\* yaml.dump(config_data, file, default_flow_style=False): block style, an
\* anchor for every dict reached twice, a set written as !!set.
YamlDump(h, data) ==
    [exc |-> "none", file |-> Text("yaml", Unfold(h, data), Share(h, data))]

IsYaml(e) == e \in {"yaml", "yml"}

\* ------------------------------------------------------------- read_config
\* The try block of read_config: open, then the parser the extension picks.
ReadBody(h, e, f, io) ==
    IF f.k = "missing" THEN [exc |-> "FileNotFoundError", data |-> None, heap |-> h]
    ELSE IF io = "open_fails" THEN [exc |-> "OSError", data |-> None, heap |-> h]
    ELSE IF e = "json"
    THEN IF f.k = "text" /\ f.fmt = "json"
         THEN [exc |-> "none"] @@ Parse(h, f)
         ELSE [exc |-> "JSONDecodeError", data |-> None, heap |-> h]
    ELSE IF IsYaml(e)
    THEN CASE f.k = "text" -> [exc |-> "none"] @@ Parse(h, f)
           [] f.k = "empty" -> [exc |-> "none", data |-> None, heap |-> h]
           [] OTHER -> [exc |-> "YAMLError", data |-> None, heap |-> h]
    ELSE [exc |-> "ValueError", data |-> None, heap |-> h]

\* read_config without its last clause, except Exception: a ValueError or an
\* OSError leaves the constructor.
ReadConfig_nocatchall(h, e, f, io) ==
    LET r == ReadBody(h, e, f, io)
        caught(m) == [data |-> None, heap |-> h, ok |-> FALSE,
                      raised |-> FALSE, msgs |-> <<m>>]
    IN  CASE r.exc = "none" ->
               [data |-> r.data, heap |-> r.heap, ok |-> TRUE,
                raised |-> FALSE, msgs |-> <<>>]
          [] r.exc = "FileNotFoundError" -> caught("Configuration file not found")
          [] r.exc = "JSONDecodeError" ->
               caught("Error decoding JSON configuration file.")
          [] r.exc = "YAMLError" -> caught("Error decoding YAML configuration file.")
          [] OTHER -> [caught("") EXCEPT !.raised = TRUE, !.msgs = <<>>]

\* read_config: every exception of the try block ends in a message and None.
ReadConfig(h, e, f, io) ==
    LET r == ReadBody(h, e, f, io)
        caught(m) == [data |-> None, heap |-> h, ok |-> FALSE,
                      raised |-> FALSE, msgs |-> <<m>>]
    IN  CASE r.exc = "none" ->
               [data |-> r.data, heap |-> r.heap, ok |-> TRUE,
                raised |-> FALSE, msgs |-> <<>>]
          [] r.exc = "FileNotFoundError" -> caught("Configuration file not found")
          [] r.exc = "JSONDecodeError" ->
               caught("Error decoding JSON configuration file.")
          [] r.exc = "YAMLError" -> caught("Error decoding YAML configuration file.")
          [] OTHER -> caught("Error reading configuration file")

\* ------------------------------------------------------------ write_config
\* write_config opening the file with 'a': the dump lands after the old text.
WriteBody_append(h, data, e, f, io) ==
    IF io = "open_fails" THEN [exc |-> "OSError", file |-> f]
    ELSE [exc |-> IF e = "json" THEN JsonDump(h, data).exc ELSE "none",
          file |-> IF f.k \in {"missing", "empty"} /\ e = "json"
                   THEN JsonDump(h, data).file ELSE Bad]

\* The try block of write_config: open(config_path, 'w') truncates the file,
\* then the dump the extension picks writes it.
WriteBody(h, data, e, f, io) ==
    IF io = "open_fails" THEN [exc |-> "OSError", file |-> f]
    ELSE IF e = "json"
    THEN LET d == JsonDump(h, data)
         IN  IF d.exc = "none" /\ io = "write_fails"
             THEN [exc |-> "OSError", file |-> Bad] ELSE d
    ELSE IF IsYaml(e)
    THEN IF io = "write_fails"
         THEN [exc |-> "OSError", file |-> Bad] ELSE YamlDump(h, data)
    ELSE [exc |-> "ValueError", file |-> Empty]

\* write_config: any exception is printed and swallowed; it returns None
\* either way (ok is what happened, which the caller does not see).
WriteConfig(h, data, e, f, io) ==
    LET r == WriteBody(h, data, e, f, io)
    IN  [file |-> r.file, ok |-> r.exc = "none",
         msgs |-> IF r.exc = "none" THEN <<>>
                  ELSE <<"Error writing to configuration file">>]

\* ----------------------------------------------------------- backup_config
\* A backup directory that holds no copy of the file.
NoCopy == [k |-> "nocopy"]

\* backup_config: the directory is named by the second; makedirs if it does
\* not exist; shutil.copy puts the file in it under its own name.
BackupConfig(b, f, t, io) ==
    LET b1 == IF t \in DOMAIN b THEN b
              ELSE [d \in DOMAIN b \cup {t} |-> IF d = t THEN NoCopy ELSE b[d]]
    IN  IF t \notin DOMAIN b /\ io = "mkdir_fails"
        THEN [backups |-> b, msgs |-> <<"Error creating backup">>]
        ELSE IF f.k = "missing"
        THEN [backups |-> b1,
              msgs |-> <<"Configuration file not found for backup">>]
        ELSE IF io = "copy_fails"
        THEN [backups |-> b1, msgs |-> <<"Error creating backup">>]
        ELSE [backups |-> [b1 EXCEPT ![t] = f], msgs |-> <<"Backup created">>]

\* validate_config taking any container for a mapping:
\* isinstance(self.config_data, (dict, list)).
ValidateConfig_anycontainer(data) ==
    IF data = None THEN [ret |-> FALSE, msgs |-> <<>>]
    ELSE IF data.t \in {"dict", "list"}
    THEN [ret |-> TRUE, msgs |-> <<"Configuration file is valid.">>]
    ELSE [ret |-> FALSE,
          msgs |-> <<"Configuration file is not in the proper format.">>]

\* --------------------------------------------------------- validate_config
\* validate_config: False for None, True for a dict, False for the rest.
ValidateConfig(data) ==
    IF data = None THEN [ret |-> FALSE, msgs |-> <<>>]
    ELSE IF data.t = "dict"
    THEN [ret |-> TRUE, msgs |-> <<"Configuration file is valid.">>]
    ELSE [ret |-> FALSE,
          msgs |-> <<"Configuration file is not in the proper format.">>]

\* ------------------------------------------------------------ update_value
RECURSIVE recursive_update_upsert(_, _, _, _)
\* recursive_update without "if key in data" at the last key: the key is
\* created when it is absent.
recursive_update_upsert(h, data, keys, value) ==
    IF data.t = "dict"
    THEN IF keys = <<>>
         THEN [exc |-> "IndexError", ret |-> FALSE, heap |-> h, msgs |-> <<>>]
         ELSE LET key == Head(keys)
                  d == h[data.v]
              IN  IF Len(keys) = 1
                  THEN [exc |-> "none", ret |-> TRUE,
                        heap |-> [h EXCEPT ![data.v] = (key :> value) @@ d],
                        msgs |-> <<>>]
                  ELSE IF key \in DOMAIN d /\ d[key].t = "dict"
                       THEN recursive_update_upsert(h, d[key], Tail(keys), value)
                       ELSE [exc |-> "none", ret |-> FALSE, heap |-> h,
                             msgs |-> <<"Key not found or is not a dictionary.">>]
    ELSE [exc |-> "none", ret |-> FALSE, heap |-> h, msgs |-> <<>>]

\* recursive_update descending into dict(data[key]), a copy: the nested
\* store is lost with the copy, and True is returned all the same.
recursive_update_copy(h, data, keys, value) ==
    IF data.t = "dict"
    THEN IF keys = <<>>
         THEN [exc |-> "IndexError", ret |-> FALSE, heap |-> h, msgs |-> <<>>]
         ELSE LET key == Head(keys)
                  d == h[data.v]
              IN  IF Len(keys) = 1
                  THEN IF key \in DOMAIN d
                       THEN [exc |-> "none", ret |-> TRUE,
                             heap |-> [h EXCEPT ![data.v][key] = value],
                             msgs |-> <<>>]
                       ELSE [exc |-> "none", ret |-> FALSE, heap |-> h,
                             msgs |-> <<"Key not found in the configuration.">>]
                  ELSE IF key \in DOMAIN d /\ d[key].t = "dict"
                       THEN [exc |-> "none",
                             ret |-> At(Unfold(h, d[key]), Tail(keys)) # Absent,
                             heap |-> h, msgs |-> <<>>]
                       ELSE [exc |-> "none", ret |-> FALSE, heap |-> h,
                             msgs |-> <<"Key not found or is not a dictionary.">>]
    ELSE [exc |-> "none", ret |-> FALSE, heap |-> h, msgs |-> <<>>]

RECURSIVE recursive_update_emptyok(_, _, _, _)
\* recursive_update guarding the empty list: "if not keys: return True".
recursive_update_emptyok(h, data, keys, value) ==
    IF data.t = "dict"
    THEN IF keys = <<>>
         THEN [exc |-> "none", ret |-> TRUE, heap |-> h, msgs |-> <<>>]
         ELSE LET key == Head(keys)
                  d == h[data.v]
              IN  IF Len(keys) = 1
                  THEN IF key \in DOMAIN d
                       THEN [exc |-> "none", ret |-> TRUE,
                             heap |-> [h EXCEPT ![data.v][key] = value],
                             msgs |-> <<>>]
                       ELSE [exc |-> "none", ret |-> FALSE, heap |-> h,
                             msgs |-> <<"Key not found in the configuration.">>]
                  ELSE IF key \in DOMAIN d /\ d[key].t = "dict"
                       THEN recursive_update_emptyok(h, d[key], Tail(keys), value)
                       ELSE [exc |-> "none", ret |-> FALSE, heap |-> h,
                             msgs |-> <<"Key not found or is not a dictionary.">>]
    ELSE [exc |-> "none", ret |-> FALSE, heap |-> h, msgs |-> <<>>]

RECURSIVE recursive_update(_, _, _, _)
\* The nested function of update_value.  keys[0] of an empty list raises
\* IndexError; data[key] = value stores into the dict object data names.
recursive_update(h, data, keys, value) ==
    IF data.t = "dict"
    THEN IF keys = <<>>
         THEN [exc |-> "IndexError", ret |-> FALSE, heap |-> h, msgs |-> <<>>]
         ELSE LET key == Head(keys)
                  d == h[data.v]
              IN  IF Len(keys) = 1
                  THEN IF key \in DOMAIN d
                       THEN [exc |-> "none", ret |-> TRUE,
                             heap |-> [h EXCEPT ![data.v][key] = value],
                             msgs |-> <<>>]
                       ELSE [exc |-> "none", ret |-> FALSE, heap |-> h,
                             msgs |-> <<"Key not found in the configuration.">>]
                  ELSE IF key \in DOMAIN d /\ d[key].t = "dict"
                       THEN recursive_update(h, d[key], Tail(keys), value)
                       ELSE [exc |-> "none", ret |-> FALSE, heap |-> h,
                             msgs |-> <<"Key not found or is not a dictionary.">>]
    ELSE [exc |-> "none", ret |-> FALSE, heap |-> h, msgs |-> <<>>]

Success == "Value updated successfully."

\* update_value: the try block and its except Exception.
UpdateValue(h, data, keys, value, e, f, io) ==
    LET none == [heap |-> h, file |-> f, updated |-> FALSE, nwrites |-> 0,
                 wrote |-> FALSE, raised |-> FALSE, msgs |-> <<>>]
    IN  IF Truthy(h, data)
        THEN LET r == recursive_update(h, data, keys, value)
             IN  IF r.exc # "none"
                 THEN [none EXCEPT !.msgs =
                          <<"Error updating value in configuration file">>]
                 ELSE IF r.ret
                 THEN LET w == WriteConfig(r.heap, data, e, f, io)
                      IN  [heap |-> r.heap, file |-> w.file, updated |-> TRUE,
                           nwrites |-> 1, wrote |-> w.ok, raised |-> FALSE,
                           msgs |-> r.msgs \o w.msgs \o <<Success>>]
                 ELSE [none EXCEPT !.msgs = r.msgs \o
                          <<"Failed to update value in the configuration file.">>]
        ELSE [none EXCEPT !.msgs =
                 <<"Failed to read configuration file for update.">>]

\* ------------------------------------------------------------------ state
VARIABLES
    ext,          \* the extension of config_path
    file,         \* what config_path holds on disk
    now,          \* datetime.now(), in seconds
    backups,      \* backup directory (its second) -> the copy it holds
    heap,         \* the live dict objects
    config_data,  \* store -> self.config_data
    load,         \* store -> "unbuilt", or how its read_config ended
    persisted,    \* store -> the last text its write_config wrote in full
    nupd,         \* update_value calls made so far
    out,          \* the last call: its arguments, messages and effects
    stores        \* the ConfigManager instances of this run

vars == <<ext, file, now, backups, heap, config_data, load, persisted, nupd,
          out, stores>>

Exts == {"json", "yaml", "yml", "toml"}

\* {"a": {"b": 1}}
TNested == Map([a |-> Map([b |-> IntVal(1)])])

\* {"a": {"b": 1}, "b": {"b": 1}}
TTwo == Map([a |-> Map([b |-> IntVal(1)]), b |-> Map([b |-> IntVal(1)])])

\* {}
TEmpty == Map([k \in {} |-> None])

\* The files a run may start from: none, a malformed one, JSON texts of a
\* nested mapping, of {}, null, 0 and a list, and the YAML text
\*   a: &x
\*     b: 1
\*   b: *x
InitFiles ==
    {Missing, Bad}
    \cup {Text("json", T, {}) : T \in {TNested, TEmpty, None, IntVal(0), ListVal}}
    \cup {Text("yaml", TTwo, {{<<"a">>, <<"b">>}})}

\* new_value: an int, a set object, or a dict literal {"b": 1} built for the
\* call.
Lit == [t |-> "lit", v |-> 0]

NewValues == {IntVal(2), SetVal, Lit}

LitObj == [b |-> IntVal(1)]

\* The tree a new_value denotes.
VTree(nv) == IF nv = Lit THEN Map(LitObj) ELSE nv

\* How a key path lies in a document T: empty, resolving (every key but the
\* last leads into a mapping that holds the next key), or failing.
PathKind(T, keys) ==
    IF keys = <<>> THEN "empty"
    ELSE IF /\ \A i \in 0..(Len(keys) - 1) : At(T, SubSeq(keys, 1, i)).t = "map"
            /\ At(T, keys) # Absent
         THEN "resolves" ELSE "fails"

\* The record of a call.  kind is PathKind on the document the store held
\* before the call; keys and value are kept for a path that resolved.
NoCall == [op |-> "none", s |-> 0, kind |-> "", keys |-> <<>>, value |-> None,
           ret |-> FALSE, updated |-> FALSE, msgs |-> <<>>, nwrites |-> 0,
           wrote |-> FALSE, nbackups |-> 0, raised |-> FALSE]

InitWith(S, E, F) ==
    /\ ext \in E
    /\ file \in F
    /\ now = 0
    /\ backups = <<>>
    /\ heap = <<>>
    /\ stores = S
    /\ config_data = [s \in S |-> None]
    /\ load = [s \in S |-> "unbuilt"]
    /\ persisted = [s \in S |-> Missing]
    /\ nupd = 0
    /\ out = NoCall

Init == InitWith({1}, Exts, InitFiles)

\* ---------------------------------------------------------------- actions
\* A second passes.
Tick ==
    /\ now < MaxTime
    /\ \E s \in stores : load[s] = "unbuilt"
    /\ now' = now + 1
    /\ UNCHANGED <<ext, file, backups, heap, config_data, load, persisted,
                   nupd, out, stores>>

\* __init__ calling backup_config whatever read_config returned.
AlwaysBackup(h, data) == TRUE

\* if self.config_data:
ShouldBackup(h, data) == Truthy(h, data)

\* ConfigManager.__init__: read_config, then backup_config if the result is
\* truthy.
Construct(s, rio, bio) ==
    /\ load[s] = "unbuilt"
    /\ LET r == ReadConfig(heap, ext, file, rio)
           run == ~r.raised /\ ShouldBackup(r.heap, r.data)
           b == IF run THEN BackupConfig(backups, file, now, bio)
                ELSE [backups |-> backups, msgs |-> <<>>]
       IN  /\ heap' = r.heap
           /\ config_data' = [config_data EXCEPT ![s] = r.data]
           /\ load' = [load EXCEPT ![s] =
                          IF r.raised THEN "unbuilt"
                          ELSE IF r.ok THEN "ok" ELSE "failed"]
           /\ backups' = b.backups
           /\ out' = [NoCall EXCEPT !.op = "construct", !.s = s,
                         !.ret = r.ok, !.msgs = r.msgs \o b.msgs,
                         !.nbackups = IF run THEN 1 ELSE 0,
                         !.raised = r.raised]
    /\ UNCHANGED <<ext, file, now, persisted, nupd, stores>>

\* validate_config().
Validate(s) ==
    /\ load[s] # "unbuilt"
    /\ LET r == ValidateConfig(config_data[s])
       IN  out' = [NoCall EXCEPT !.op = "validate", !.s = s, !.ret = r.ret,
                      !.msgs = r.msgs]
    /\ UNCHANGED <<ext, file, now, backups, heap, config_data, load,
                   persisted, nupd, stores>>

\* update_value(keys, new_value).
Update(s, keys, nv, io) ==
    /\ load[s] # "unbuilt"
    /\ nupd < MaxUpdates
    /\ LET h1 == IF nv = Lit THEN heap @@ (FreeId(heap) :> LitObj) ELSE heap
           value == IF nv = Lit THEN Ref(FreeId(heap)) ELSE nv
           u == UpdateValue(h1, config_data[s], keys, value, ext, file, io)
           kind == PathKind(Unfold(heap, config_data[s]), keys)
       IN  /\ heap' = IF u.updated THEN Collect(u.heap, config_data) ELSE heap
           /\ file' = u.file
           /\ persisted' = IF u.wrote THEN [persisted EXCEPT ![s] = u.file]
                           ELSE persisted
           /\ out' = [NoCall EXCEPT !.op = "update", !.s = s, !.kind = kind,
                         !.keys = IF kind = "resolves" THEN keys ELSE <<>>,
                         !.value = IF kind = "resolves" THEN nv ELSE None,
                         !.ret = u.updated,
                         !.updated = u.updated, !.msgs = u.msgs,
                         !.nwrites = u.nwrites, !.wrote = u.wrote,
                         !.raised = u.raised]
    /\ nupd' = nupd + 1
    /\ UNCHANGED <<ext, now, backups, config_data, load, stores>>

IOWrite == {"ok", "open_fails"}

IORead == {"ok", "open_fails"}

IOBackup == {"ok", "mkdir_fails", "copy_fails"}

\* The calls a program makes on its stores.
Calls ==
    \/ \E s \in stores : \E rio \in IORead, bio \in IOBackup :
           Construct(s, rio, bio)
    \/ \E s \in stores : Validate(s)
    \/ \E s \in stores : \E keys \in Paths, nv \in NewValues, io \in IOWrite :
           Update(s, keys, nv, io)

\* One store: the clock plays no part.
Spec == Init /\ [][Calls]_vars

\* {"a": 1, "b": 1}
TFlat == Map([a |-> IntVal(1), b |-> IntVal(1)])

\* Two stores built on the same .json path, which holds {"a": 1, "b": 1}; the
\* clock runs while they are built, and no call meets an I/O error.
InitTwo == InitWith({1, 2}, {"json"}, {Text("json", TFlat, {})})

CallsTwo ==
    \/ \E s \in stores : Construct(s, "ok", "ok")
    \/ \E s \in stores : Validate(s)
    \/ \E s \in stores : \E keys \in Paths, nv \in NewValues :
           Update(s, keys, nv, "ok")

SpecTwo == InitTwo /\ [][Tick \/ CallsTwo]_vars

\* ------------------------------------------------------------ properties
\* The document a store holds, as a tree, and its groups of shared paths.
Doc(s) == Unfold(heap, config_data[s])

Aliases(s) == Share(heap, config_data[s])

Said(m) == \E i \in DOMAIN out.msgs : out.msgs[i] = m

RECURSIVE Replace(_, _, _)
\* Tree T with the node at path p replaced by V.
Replace(T, p, V) ==
    IF p = <<>> THEN V
    ELSE Map([k \in DOMAIN T.m |->
                 IF k = Head(p) THEN Replace(T.m[k], Tail(p), V) ELSE T.m[k]])

RECURSIVE ReplaceAll(_, _, _)
\* Tree T with the node at every path of S replaced by V.
ReplaceAll(T, S, V) ==
    IF S = {} THEN T
    ELSE LET p == CHOOSE x \in S : TRUE
         IN  ReplaceAll(Replace(T, p, V), S \ {p}, V)

\* The paths that name the same slot as keys: the last key of keys, in the
\* dict object that the keys before it reach.
SameSlot(h, data, keys) ==
    {Append(q, Last(keys)) :
        q \in {x \in Paths : Walk(h, data, x) = Walk(h, data, Most(keys))}}

\* C1: when update_value fails on a non-empty key path (an intermediate key
\* is absent or leads to a non-mapping, or the final key is absent), the
\* store's document is what it was before the call, write_config is not
\* called and the file is untouched.
C1_FailedUpdateChangesNothing ==
    [][(out'.op = "update" /\ out'.kind = "fails" /\ nupd' # nupd) =>
          /\ Unfold(heap', config_data'[out'.s]) = Doc(out'.s)
          /\ Share(heap', config_data'[out'.s]) = Aliases(out'.s)
          /\ file' = file
          /\ out'.nwrites = 0
          /\ ~out'.updated]_vars

\* A mapping document was asked for a final key it does not hold.
C1_Witness ==
    /\ out.op = "update" /\ out.kind = "fails"
    /\ config_data[out.s].t = "dict"
    /\ Said("Key not found in the configuration.")

\* C2 as stated: on a resolving key path update_value replaces exactly the
\* value at that path, leaves every other key and value unchanged, and calls
\* write_config once with the whole updated document.
C2_OnlyThatPathChanges ==
    [][(out'.op = "update" /\ out'.kind = "resolves" /\ nupd' # nupd) =>
          /\ Unfold(heap', config_data'[out'.s]) = Replace(Doc(out'.s), out'.keys, VTree(out'.value))
          /\ out'.nwrites = 1
          /\ out'.wrote => file'.k = "text" /\ file'.tree = Unfold(heap', config_data'[out'.s])]_vars

\* C2 amended: on a resolving key path update_value stores the value under
\* the final key of the dict object the path reaches, so the value changes at
\* that path and at every other path that reaches the same dict object;
\* every other key and value is unchanged, and write_config is called once
\* with the whole updated document.
C2_SlotOfPathChanges ==
    [][(out'.op = "update" /\ out'.kind = "resolves" /\ nupd' # nupd) =>
          /\ Unfold(heap', config_data'[out'.s]) =
                ReplaceAll(Doc(out'.s),
                           SameSlot(heap, config_data[out'.s], out'.keys),
                           VTree(out'.value))
          /\ out'.nwrites = 1
          /\ out'.wrote => file'.k = "text" /\ file'.tree = Unfold(heap', config_data'[out'.s])]_vars

\* ["a","b"] was set to 2 in a document whose "a" and "b" are one dict: the
\* value at ["b","b"] is 2 as well.
C2_Witness ==
    /\ out.op = "update" /\ out.kind = "resolves"
    /\ out.keys = <<"a", "b">> /\ out.value = IntVal(2)
    /\ Aliases(out.s) # {}
    /\ At(Doc(out.s), <<"a", "b">>) = IntVal(2)
    /\ At(Doc(out.s), <<"b", "b">>) = IntVal(2)

\* C3: every construction whose load returned a document (an empty mapping
\* and other falsy values included) runs backup_config exactly once.
C3_BackupOnEveryLoad ==
    (out.op = "construct" /\ out.ret /\ config_data[out.s] # None) =>
        out.nbackups = 1

\* C4: validate_config returns True exactly when the load did not fail and
\* the top-level value of the document is a mapping, and it changes neither
\* the document nor the file.
C4_ValidateIffMapping ==
    [][out'.op = "validate" =>
          /\ out'.ret <=> (load[out'.s] = "ok" /\ Doc(out'.s).t = "map")
          /\ UNCHANGED <<heap, config_data, file, backups>>]_vars

\* validate_config returned True on the empty mapping.
C4_Witness ==
    /\ out.op = "validate" /\ out.ret
    /\ Doc(out.s) = TEmpty

\* How the load of file f under extension e must fail, whatever the I/O does.
LoadFails(e, f) ==
    \/ f.k \in {"missing", "bad"}
    \/ e \notin {"json", "yaml", "yml"}
    \/ e = "json" /\ ~(f.k = "text" /\ f.fmt = "json")

\* C5: read_config never raises; on every failure kind it returns None, so
\* the store holds no document after construction, and a path with an
\* unrecognized extension always yields no document.
C5_ReadNeverRaises ==
    [][/\ out'.op = "construct" => ~out'.raised
       /\ \A s \in stores :
             (load[s] = "unbuilt" /\ out'.op = "construct" /\ out'.s = s
              /\ out' # out) =>
                /\ load'[s] \in {"ok", "failed"}
                /\ LoadFails(ext, file) => load'[s] = "failed"
                /\ load'[s] = "failed" => config_data'[s] = None]_vars

\* A store was built on a well-formed text under an unrecognized extension.
C5_Witness ==
    /\ out.op = "construct" /\ ext = "toml" /\ file.k = "text"
    /\ load[out.s] = "failed" /\ config_data[out.s] = None

\* C6: after a failed load the store holds no document, its construction made
\* no backup, and every later validate_config returns False and every later
\* update_value fails, neither raising nor writing the file.
C6_FailedLoadStaysEmpty ==
    \A s \in stores :
        load[s] = "failed" =>
            /\ config_data[s] = None
            /\ out.s = s =>
                  /\ ~out.raised /\ ~out.ret /\ ~out.updated
                  /\ out.nwrites = 0 /\ out.nbackups = 0
                  /\ ~Said(Success)

\* update_value was called on a store whose load had failed.
C6_Witness ==
    /\ out.op = "update" /\ load[out.s] = "failed"
    /\ Said("Failed to read configuration file for update.")

\* C7: the success message is reported only when write_config succeeded and
\* the file holds the updated document.
C7_SuccessMeansPersisted ==
    (out.op = "update" /\ Said(Success)) =>
        /\ out.wrote
        /\ file.k = "text" /\ file.tree = Doc(out.s)

\* C8: update_value with an empty key path fails in every store state: it
\* does not raise, does not change the document, does not call write_config
\* and does not report success.
C8_EmptyPathFails ==
    [][(out'.op = "update" /\ out'.kind = "empty" /\ nupd' # nupd) =>
          /\ ~out'.raised /\ ~out'.updated
          /\ Unfold(heap', config_data'[out'.s]) = Doc(out'.s)
          /\ file' = file
          /\ out'.nwrites = 0
          /\ \A i \in DOMAIN out'.msgs : out'.msgs[i] # Success]_vars

\* The empty path met a non-empty mapping: keys[0] raised, and was caught.
C8_Witness ==
    /\ out.op = "update" /\ out.kind = "empty"
    /\ config_data[out.s].t = "dict"
    /\ Said("Error updating value in configuration file")

\* C9: with two stores on one path, after every write that succeeds the file
\* is the whole document of the store that wrote, and a store's document
\* changes only by its own calls (it never reads the file again), so what
\* the other store persisted elsewhere is gone from the file.
C9_LastWriterWins ==
    [][/\ (nupd' # nupd /\ out'.wrote) =>
             /\ file'.k = "text" /\ file'.tree = Unfold(heap', config_data'[out'.s])
             /\ persisted'[out'.s] = file'
       /\ \A t \in stores : Unfold(heap', config_data'[t]) # Doc(t) => out'.s = t /\ out' # out]_vars

\* Store 1 persisted "a" = 2, then store 2 wrote "b" = 2: the file holds
\* "a" = 1 again.
C9_Witness ==
    /\ out.op = "update" /\ out.s = 2 /\ out.wrote /\ out.keys = <<"b">>
    /\ persisted[1].k = "text"
    /\ At(persisted[1].tree, <<"a">>) = IntVal(2)
    /\ At(file.tree, <<"a">>) = IntVal(1)
    /\ At(file.tree, <<"b">>) = IntVal(2)

\* C10: for a single store that loaded a mapping, in every state between
\* calls validate_config returns True and the file holds the document the
\* store holds.
C10_MemoryMatchesDisk ==
    (stores = {1} /\ load[1] = "ok" /\ config_data[1].t = "dict") =>
        /\ ValidateConfig(config_data[1]).ret
        /\ file.k = "text" /\ file.tree = Doc(1)

====
